---- MODULE Spec2Model ----
(***************************************************************************)
(* Model of src/main.cpp: a 4-digit multiplexed 7-segment clock/voltmeter  *)
(* driven through a 74HC595 shift register.  The program has one thread    *)
(* (main) and one interrupt-context callback (updateTime, attached to a    *)
(* Ticker).  The callback is atomic with respect to main; main can be      *)
(* interrupted between any two of its accesses to volatile objects or      *)
(* pins.                                                                   *)
(*                                                                         *)
(* Timing.  The Ticker fires every 10 ms (line 115); main sleeps 200 ms    *)
(* after a reset (line 121) and 2 ms after each display update (line 98).  *)
(* The statements main executes between two sleeps (a few hundred pin and  *)
(* memory accesses) take far less than one tick period, so at most one     *)
(* tick falls into such a stretch; any number may fall into a sleep.       *)
(***************************************************************************)
EXTENDS Integers, Sequences, FiniteSets, TLC

\* ---- bounds of the model ------------------------------------------------
\* number of updateTime invocations explored next to the pin-level main loop
MaxTicks == 3
\* number of updateTime invocations explored by the tick-only specification
MaxInvocations == 6001
\* largest argument of the digit decomposition explored
MaxNumber == 10005
\* raw 16-bit samples the analog input delivers in the main-loop model
RawSamples == {0, 32768, 65535}
\* arguments of displayNumber of up to ten digits, up to the largest int
WideNumbers == {0, 530, 9999, 10000, 10530, 19999, 65535, 123456, 987654321, 2147483647}
\* arguments of displayNumber explored at pin level: every digit value at
\* every position, and the values the specification names
DisplayNumbers == {k * 1111 : k \in 0..9} \cup {530, 1650, 9959}

\* ---- state ----------------------------------------------------------------
VARIABLES
    seconds, minutes,             \* volatile int seconds, minutes
    nticks,                       \* invocations of updateTime so far
    ticked,                       \* a tick has fired since main last slept
    s1, s2, s3,                   \* levels of the three button inputs
    latchPin, clockPin, dataPin,  \* levels of the three output lines
    sr,                           \* 16 bits held by the shift register
    pulses,                       \* rising clock edges since the current call/update began
    latched,                      \* shift-register contents at each rising latch edge of the current displayNumber call
    sleptMs,                      \* milliseconds main has slept since the last rising latch edge
    pc,                           \* position of main
    didReset, calls,              \* per iteration: reset performed, displayNumber calls
    raw, mRead, sRead,            \* main's temporaries: sample, minutes read, seconds read
    dpc, number, showDecimalPoint, decimalPosition, digits, i,  \* displayNumber frame
    wpc, segments, digit,         \* writeToShiftRegister frame
    spc, value, bit               \* shiftOutMSBFirst frame (bit is its loop variable i)

clockVars == <<seconds, minutes, nticks, ticked>>
buttonVars == <<s1, s2, s3>>
pinVars == <<latchPin, clockPin, dataPin, sr, pulses, latched, sleptMs>>
mainVars == <<pc, didReset, calls, raw, mRead, sRead>>
displayVars == <<dpc, number, showDecimalPoint, decimalPosition, digits, i>>
writeVars == <<wpc, segments, digit>>
shiftVars == <<spc, value, bit>>
vars == <<clockVars, buttonVars, pinVars, mainVars, displayVars, writeVars, shiftVars>>

\* value of a temporary that holds nothing
None == -1

\* ---- tables and pure helpers ------------------------------------------------
RECURSIVE Pow2(_)
Pow2(k) == IF k = 0 THEN 1 ELSE 2 * Pow2(k - 1)

\* BitOf with the bits taken least significant first
BitOf_LsbFirst(v, k) == (v \div Pow2(7 - k)) % 2

\* bit k of the byte v:  (v & (1 << k)) ? 1 : 0
BitOf(v, k) == (v \div Pow2(k)) % 2

\* static_cast<uint8_t>(~x)
NotU8(x) == 255 - x

\* const uint8_t digitPattern[10], indexed 0..9
digitPattern(d) ==
    CASE d = 0 -> NotU8(63)
      [] d = 1 -> NotU8(6)
      [] d = 2 -> NotU8(91)
      [] d = 3 -> NotU8(79)
      [] d = 4 -> NotU8(102)
      [] d = 5 -> NotU8(109)
      [] d = 6 -> NotU8(125)
      [] d = 7 -> NotU8(7)
      [] d = 8 -> NotU8(127)
      [] d = 9 -> NotU8(111)

\* digitPos with a second entry that also selects the first position
digitPos_Overlap(k) ==
    CASE k = 0 -> 1
      [] k = 1 -> 3
      [] k = 2 -> 4
      [] k = 3 -> 8

\* const uint8_t digitPos[4], indexed 0..3
digitPos(k) ==
    CASE k = 0 -> 1
      [] k = 1 -> 2
      [] k = 2 -> 4
      [] k = 3 -> 8

\* ExtractDigits that shows 9999 for an argument of more than four digits
ExtractDigits_Saturate(n) ==
    IF n > 9999 THEN <<9, 9, 9, 9>>
    ELSE << (n \div 1000) % 10, (n \div 100) % 10, (n \div 10) % 10, n % 10 >>

\* ExtractDigits with the hundreds digit taken modulo 100
ExtractDigits_Mod100(n) ==
    << (n \div 1000) % 10, (n \div 100) % 100, (n \div 10) % 10, n % 10 >>

\* int digits[4] of displayNumber, as a sequence indexed 1..4
ExtractDigits(n) ==
    << (n \div 1000) % 10, (n \div 100) % 10, (n \div 10) % 10, n % 10 >>

\* segments &= ~0x80 on a byte
ClearBit7(b) == b % 128

\* SegmentsFor with the decimal point one position late
SegmentsFor_DpLate(ds, show, p, k) ==
    IF show /\ k = p + 1 THEN ClearBit7(digitPattern(ds[k + 1]))
    ELSE digitPattern(ds[k + 1])

\* the segment byte displayNumber computes for loop index k (0..3)
SegmentsFor(ds, show, p, k) ==
    IF show /\ k = p THEN ClearBit7(digitPattern(ds[k + 1]))
    ELSE digitPattern(ds[k + 1])

\* ---- single-precision arithmetic of the voltage conversion ------------------
\* A positive float is <<m, e>> with value m * 2^e and m < 2^24; every
\* operation rounds to nearest, ties to even, on 24 significant bits.
RECURSIVE BitLen(_)
BitLen(x) == IF x = 0 THEN 0 ELSE 1 + BitLen(x \div 2)

\* m + 1 when the discarded part (rem out of unit) is above half, or is half and m is odd
RoundNearestEven(m, rem, unit) ==
    IF 2 * rem > unit \/ (2 * rem = unit /\ m % 2 = 1) THEN m + 1 ELSE m

\* a rounded mantissa that reached 2^24 becomes 2^23 with the exponent one up
Renormalise(m, e) == IF m = 16777216 THEN <<8388608, e + 1>> ELSE <<m, e>>

\* the long division n / d carried on until the quotient q has 24 bits
RECURSIVE DivideSteps(_, _, _, _)
DivideSteps(q, rem, d, e) ==
    IF q >= 8388608
    THEN Renormalise(RoundNearestEven(q, rem, d), e)
    ELSE DivideSteps(2 * q + (2 * rem) \div d, (2 * rem) % d, d, e - 1)

\* n / d in float, for integers 0 < n, d < 2^16
FDiv(n, d) == DivideSteps(n \div d, n % d, d, 0)

\* the 48-bit value hi * 2^24 + lo, scaled by 2^e, rounded to 24 bits
RoundTo24(hi, lo, e) ==
    IF hi = 0 THEN <<lo, e>>
    ELSE LET n == BitLen(hi)
             m == hi * Pow2(24 - n) + lo \div Pow2(n)
         IN  Renormalise(RoundNearestEven(m, lo % Pow2(n), Pow2(n)), e + n)

\* a * b in float; the 48-bit product is formed from 12-bit halves
FMul(a, b) ==
    LET a1 == a[1] \div 4096
        a0 == a[1] % 4096
        b1 == b[1] \div 4096
        b0 == b[1] % 4096
        mid == a1 * b0 + a0 * b1
        low == a0 * b0 + (mid % 4096) * 4096
    IN  RoundTo24(a1 * b1 + mid \div 4096 + low \div 16777216, low % 16777216, a[2] + b[2])

\* (int) of a float below 2^24
FTrunc(a) ==
    IF a[2] >= 0 THEN a[1] * Pow2(a[2])
    ELSE IF 0 - a[2] > 30 THEN 0
    ELSE a[1] \div Pow2(0 - a[2])

\* the literal 3.3f = 0x40533333
Float3_3 == <<13841203, -22>>

\* the int 1000 converted to float
Float1000 == <<1000, 0>>

\* VoltageValue with the sample divided by 65536 instead of 65535
VoltageValue_Div65536(r) == (r * 3300) \div 65536

\* (int)(read_u16() / 65535.0f * 3.3f * 1000), evaluated in single precision
VoltageValue(r) ==
    IF r = 0 THEN 0
    ELSE FTrunc(FMul(FMul(FDiv(r, 65535), Float3_3), Float1000))

\* ---- initial state: main after lines 105-115 -------------------------------
IdleFrames ==
    /\ dpc = "idle" /\ number = None /\ showDecimalPoint = FALSE
    /\ decimalPosition = None /\ digits = <<>> /\ i = None
    /\ wpc = "idle" /\ segments = None /\ digit = None
    /\ spc = "idle" /\ value = None /\ bit = None

Init ==
    /\ seconds = 0 /\ minutes = 0 /\ nticks = 0 /\ ticked = FALSE
    /\ s1 = 1 /\ s2 = 1 /\ s3 = 1
    /\ latchPin = 0 /\ clockPin = 0 /\ dataPin = 0
    /\ sr = 0 /\ pulses = 0 /\ latched = <<>> /\ sleptMs = None
    /\ pc = "poll_s1" /\ didReset = FALSE /\ calls = 0
    /\ raw = None /\ mRead = None /\ sRead = None
    /\ IdleFrames

\* ---- the tick handler -------------------------------------------------------
\* updateTime with the seconds compared by > instead of >=
updateTime_SecondsGT ==
    IF seconds + 1 > 60
    THEN /\ seconds' = 0
         /\ minutes' = IF minutes + 1 >= 100 THEN 0 ELSE minutes + 1
    ELSE /\ seconds' = seconds + 1
         /\ minutes' = minutes

\* updateTime without the rollover of the minutes
updateTime_NoMinuteWrap ==
    IF seconds + 1 >= 60
    THEN /\ seconds' = 0
         /\ minutes' = minutes + 1
    ELSE /\ seconds' = seconds + 1
         /\ minutes' = minutes

\* void updateTime(): the body, on the two counters
updateTime ==
    IF seconds + 1 >= 60
    THEN /\ seconds' = 0
         /\ minutes' = IF minutes + 1 >= 100 THEN 0 ELSE minutes + 1
    ELSE /\ seconds' = seconds + 1
         /\ minutes' = minutes

\* timerTicker.attach(&updateTime, 10ms): the period in milliseconds
TickPeriodMs == 10

\* milliseconds between the attach and the latest firing of timerTicker
ElapsedMs == nticks * TickPeriodMs

\* the counters one tick earlier
PackedBeforeTick ==
    IF seconds > 0 THEN minutes * 100 + (seconds - 1)
    ELSE ((minutes + 99) % 100) * 100 + 59

\* minutes*100 + seconds of every state the counters have held since main last
\* woke, when main has not written them since: the present one and, if a tick
\* has fired, the one before it
HeldSinceWake ==
    {minutes * 100 + seconds} \cup (IF ticked THEN {PackedBeforeTick} ELSE {})

\* ThisThread::sleep_for(2ms) of displayNumber, in milliseconds
SettleMs == 2

\* ThisThread::sleep_for(200ms) of main, in milliseconds
DebounceMs == 200

\* main is inside one of its sleep_for calls
Asleep == pc \in {"debounce", "showing"} \/ dpc = "sleep"

\* one invocation of updateTime, counted, main not running
TickOnly ==
    /\ nticks < MaxInvocations
    /\ updateTime
    /\ nticks' = nticks + 1
    /\ UNCHANGED <<ticked, buttonVars, pinVars, mainVars, displayVars, writeVars, shiftVars>>

\* one firing of timerTicker next to main, counted
TickBounded ==
    /\ nticks < MaxTicks
    /\ Asleep \/ ~ticked
    /\ updateTime
    /\ nticks' = nticks + 1
    /\ ticked' = ~Asleep
    /\ UNCHANGED <<buttonVars, pinVars, mainVars, displayVars, writeVars, shiftVars>>

\* one firing of timerTicker next to main, not counted
Tick ==
    /\ Asleep \/ ~ticked
    /\ updateTime
    /\ ticked' = ~Asleep
    /\ UNCHANGED <<nticks, buttonVars, pinVars, mainVars, displayVars, writeVars, shiftVars>>

\* ---- the environment: button levels change at any time ---------------------
ToggleS1 ==
    /\ s1' = 1 - s1
    /\ UNCHANGED <<s2, s3, clockVars, pinVars, mainVars, displayVars, writeVars, shiftVars>>

ToggleS2 ==
    /\ s2' = 1 - s2
    /\ UNCHANGED <<s1, s3, clockVars, pinVars, mainVars, displayVars, writeVars, shiftVars>>

ToggleS3 ==
    /\ s3' = 1 - s3
    /\ UNCHANGED <<s1, s2, clockVars, pinVars, mainVars, displayVars, writeVars, shiftVars>>

\* ---- shiftOutMSBFirst, one pin write per step ------------------------------
\* dataPin = (value & (1 << i)) ? 1 : 0
ShiftData ==
    /\ spc = "data"
    /\ dataPin' = BitOf(value, bit)
    /\ spc' = "clk_hi"
    /\ UNCHANGED <<sleptMs, latchPin, clockPin, sr, pulses, latched, value, bit>>
    /\ UNCHANGED <<clockVars, buttonVars, mainVars, displayVars, writeVars>>

\* clockPin = 1; on a rising edge the register shifts the data line in
ShiftClockHigh ==
    /\ spc = "clk_hi"
    /\ clockPin' = 1
    /\ IF clockPin = 0
       THEN /\ sr' = (2 * sr + dataPin) % 65536
            /\ pulses' = pulses + 1
       ELSE UNCHANGED <<sr, pulses>>
    /\ spc' = "clk_lo"
    /\ UNCHANGED <<sleptMs, latchPin, dataPin, latched, value, bit>>
    /\ UNCHANGED <<clockVars, buttonVars, mainVars, displayVars, writeVars>>

\* clockPin = 0; i--; the loop ends when i < 0
ShiftClockLow ==
    /\ spc = "clk_lo"
    /\ clockPin' = 0
    /\ bit' = bit - 1
    /\ spc' = IF bit - 1 >= 0 THEN "data" ELSE "ret"
    /\ UNCHANGED <<sleptMs, latchPin, dataPin, sr, pulses, latched, value>>
    /\ UNCHANGED <<clockVars, buttonVars, mainVars, displayVars, writeVars>>

\* ---- writeToShiftRegister ---------------------------------------------------
\* latchPin = 0; shiftOutMSBFirst(segments) is entered
WriteLatchLow ==
    /\ wpc = "latch_low"
    /\ latchPin' = 0
    /\ pulses' = 0
    /\ wpc' = "shift_seg"
    /\ spc' = "data" /\ value' = segments /\ bit' = 7
    /\ UNCHANGED <<sleptMs, clockPin, dataPin, sr, latched, segments, digit>>
    /\ UNCHANGED <<clockVars, buttonVars, mainVars, displayVars>>

\* WriteDigit with the latch raised between the two bytes
WriteDigit_LatchEarly ==
    /\ wpc = "shift_seg" /\ spc = "ret"
    /\ latchPin' = 1
    /\ latched' = IF latchPin = 0 THEN Append(latched, sr) ELSE latched
    /\ sleptMs' = IF latchPin = 0 THEN 0 ELSE sleptMs
    /\ wpc' = "shift_dig"
    /\ spc' = "data" /\ value' = digit /\ bit' = 7
    /\ UNCHANGED <<clockPin, dataPin, sr, pulses, segments, digit>>
    /\ UNCHANGED <<clockVars, buttonVars, mainVars, displayVars>>

\* shiftOutMSBFirst(segments) returned; shiftOutMSBFirst(digit) is entered
WriteDigit ==
    /\ wpc = "shift_seg" /\ spc = "ret"
    /\ wpc' = "shift_dig"
    /\ spc' = "data" /\ value' = digit /\ bit' = 7
    /\ UNCHANGED <<pinVars, segments, digit>>
    /\ UNCHANGED <<clockVars, buttonVars, mainVars, displayVars>>

\* shiftOutMSBFirst(digit) returned; latchPin = 1: on a rising edge the
\* register's 16 bits appear on its outputs
WriteLatchHigh ==
    /\ wpc = "shift_dig" /\ spc = "ret"
    /\ latchPin' = 1
    /\ latched' = IF latchPin = 0 THEN Append(latched, sr) ELSE latched
    /\ sleptMs' = IF latchPin = 0 THEN 0 ELSE sleptMs
    /\ wpc' = "ret"
    /\ spc' = "idle" /\ value' = None /\ bit' = None
    /\ UNCHANGED <<clockPin, dataPin, sr, pulses, segments, digit>>
    /\ UNCHANGED <<clockVars, buttonVars, mainVars, displayVars>>

\* ---- displayNumber ------------------------------------------------------------
\* int digits[4] = {...}; i = 0
DisplayEnter ==
    /\ dpc = "enter"
    /\ digits' = ExtractDigits(number)
    /\ i' = 0
    /\ latched' = <<>>
    /\ dpc' = "loop"
    /\ UNCHANGED <<latchPin, clockPin, dataPin, sr, pulses, sleptMs>>
    /\ UNCHANGED <<number, showDecimalPoint, decimalPosition>>
    /\ UNCHANGED <<clockVars, buttonVars, mainVars, writeVars, shiftVars>>

\* DisplayDigit that takes the digit from the counters instead of the argument
DisplayDigit_LiveTime ==
    /\ dpc = "loop" /\ i < 4
    /\ segments' = SegmentsFor(ExtractDigits(minutes * 100 + seconds), showDecimalPoint, decimalPosition, i)
    /\ digit' = digitPos(i)
    /\ wpc' = "latch_low"
    /\ dpc' = "write"
    /\ UNCHANGED <<number, showDecimalPoint, decimalPosition, digits, i>>
    /\ UNCHANGED <<clockVars, buttonVars, pinVars, mainVars, shiftVars>>

\* i < 4: compute segments and enter writeToShiftRegister(segments, digitPos[i])
DisplayDigit ==
    /\ dpc = "loop" /\ i < 4
    /\ segments' = SegmentsFor(digits, showDecimalPoint, decimalPosition, i)
    /\ digit' = digitPos(i)
    /\ wpc' = "latch_low"
    /\ dpc' = "write"
    /\ UNCHANGED <<number, showDecimalPoint, decimalPosition, digits, i>>
    /\ UNCHANGED <<clockVars, buttonVars, pinVars, mainVars, shiftVars>>

\* writeToShiftRegister returned; ThisThread::sleep_for(2ms) begins
DisplaySleep ==
    /\ dpc = "write" /\ wpc = "ret"
    /\ wpc' = "idle" /\ segments' = None /\ digit' = None
    /\ dpc' = "sleep"
    /\ UNCHANGED <<number, showDecimalPoint, decimalPosition, digits, i>>
    /\ UNCHANGED <<clockVars, buttonVars, pinVars, mainVars, shiftVars>>

\* DisplayWake without the sleep before it
DisplayWake_NoSleep ==
    /\ dpc = "sleep"
    /\ i' = i + 1
    /\ ticked' = FALSE
    /\ dpc' = "loop"
    /\ UNCHANGED <<number, showDecimalPoint, decimalPosition, digits>>
    /\ UNCHANGED <<seconds, minutes, nticks, buttonVars, pinVars, mainVars, writeVars, shiftVars>>

\* the sleep ends; i++
DisplayWake ==
    /\ dpc = "sleep"
    /\ i' = i + 1
    /\ ticked' = FALSE
    /\ sleptMs' = sleptMs + SettleMs
    /\ dpc' = "loop"
    /\ UNCHANGED <<number, showDecimalPoint, decimalPosition, digits>>
    /\ UNCHANGED <<seconds, minutes, nticks, buttonVars, latchPin, clockPin, dataPin, sr, pulses, latched, mainVars, writeVars, shiftVars>>

\* i == 4: the loop ends and displayNumber returns
DisplayDone ==
    /\ dpc = "loop" /\ ~(i < 4)
    /\ dpc' = "ret"
    /\ UNCHANGED <<number, showDecimalPoint, decimalPosition, digits, i>>
    /\ UNCHANGED <<clockVars, buttonVars, pinVars, mainVars, writeVars, shiftVars>>

\* ---- main --------------------------------------------------------------------
\* if (!s1): a new iteration begins with the sample of the reset button
PollS1 ==
    /\ pc = "poll_s1"
    /\ pc' = IF s1 = 0 THEN "reset_min" ELSE "poll_s3"
    /\ didReset' = FALSE
    /\ calls' = 0
    /\ UNCHANGED <<raw, mRead, sRead>>
    /\ UNCHANGED <<clockVars, buttonVars, pinVars, displayVars, writeVars, shiftVars>>

\* seconds = minutes = 0: the inner assignment, minutes = 0
ResetMinutes ==
    /\ pc = "reset_min"
    /\ minutes' = 0
    /\ pc' = "reset_sec"
    /\ UNCHANGED <<seconds, nticks, ticked, didReset, calls, raw, mRead, sRead>>
    /\ UNCHANGED <<buttonVars, pinVars, displayVars, writeVars, shiftVars>>

\* ResetSeconds without the debounce delay after it
ResetSeconds_NoDebounce ==
    /\ pc = "reset_sec"
    /\ \E v \in {0, minutes} : seconds' = v
    /\ didReset' = TRUE
    /\ pc' = "poll_s1"
    /\ UNCHANGED <<minutes, nticks, ticked, calls, raw, mRead, sRead>>
    /\ UNCHANGED <<buttonVars, pinVars, displayVars, writeVars, shiftVars>>

\* seconds = minutes = 0: the outer assignment.  Its right operand is the
\* volatile lvalue minutes: a build stores either the constant 0 or the value
\* it reads back from minutes.
ResetSeconds ==
    /\ pc = "reset_sec"
    /\ \E v \in {0, minutes} : seconds' = v
    /\ didReset' = TRUE
    /\ pc' = "debounce"
    /\ UNCHANGED <<minutes, nticks, ticked, calls, raw, mRead, sRead>>
    /\ UNCHANGED <<buttonVars, pinVars, displayVars, writeVars, shiftVars>>

\* Debounce followed by a jump to the head of the loop
Debounce_Continue ==
    /\ pc = "debounce"
    /\ ticked' = FALSE
    /\ sleptMs' = IF sleptMs = None THEN None ELSE sleptMs + DebounceMs
    /\ pc' = "poll_s1"
    /\ UNCHANGED <<didReset, calls, raw, mRead, sRead>>
    /\ UNCHANGED <<seconds, minutes, nticks, buttonVars, latchPin, clockPin, dataPin, sr, pulses, latched, displayVars, writeVars, shiftVars>>

\* Debounce that waits until the reset button is released
Debounce_WaitRelease ==
    /\ pc = "debounce" /\ s1 = 1
    /\ ticked' = FALSE
    /\ sleptMs' = IF sleptMs = None THEN None ELSE sleptMs + DebounceMs
    /\ pc' = "poll_s3"
    /\ UNCHANGED <<didReset, calls, raw, mRead, sRead>>
    /\ UNCHANGED <<seconds, minutes, nticks, buttonVars, latchPin, clockPin, dataPin, sr, pulses, latched, displayVars, writeVars, shiftVars>>

\* ThisThread::sleep_for(200ms) ends
Debounce ==
    /\ pc = "debounce"
    /\ ticked' = FALSE
    /\ sleptMs' = IF sleptMs = None THEN None ELSE sleptMs + DebounceMs
    /\ pc' = "poll_s3"
    /\ UNCHANGED <<didReset, calls, raw, mRead, sRead>>
    /\ UNCHANGED <<seconds, minutes, nticks, buttonVars, latchPin, clockPin, dataPin, sr, pulses, latched, displayVars, writeVars, shiftVars>>

\* if (!s3)
PollS3 ==
    /\ pc = "poll_s3"
    /\ pc' = IF s3 = 0 THEN "read_pot" ELSE "read_time"
    /\ UNCHANGED <<didReset, calls, raw, mRead, sRead>>
    /\ UNCHANGED <<clockVars, buttonVars, pinVars, displayVars, writeVars, shiftVars>>

\* voltageValue is computed from a sample and displayNumber(voltageValue, true, 0) is entered
ShowVoltageOf(samples) ==
    /\ pc = "read_pot"
    /\ \E r \in samples :
          /\ raw' = r
          /\ number' = VoltageValue(r)
    /\ showDecimalPoint' = TRUE
    /\ decimalPosition' = 0
    /\ dpc' = "enter"
    /\ calls' = calls + 1
    /\ pc' = "display"
    /\ UNCHANGED <<didReset, mRead, sRead, digits, i>>
    /\ UNCHANGED <<clockVars, buttonVars, pinVars, writeVars, shiftVars>>

\* the same with the samples of the main-loop model
ShowVoltage == ShowVoltageOf(RawSamples)

\* the same with every 16-bit sample
ShowVoltageAny == ShowVoltageOf(0..65535)

\* minutes * 100 + seconds: the read of minutes (the two reads are unsequenced)
ReadMinutes ==
    /\ pc = "read_time" /\ mRead = None
    /\ mRead' = minutes
    /\ UNCHANGED <<pc, didReset, calls, raw, sRead>>
    /\ UNCHANGED <<clockVars, buttonVars, pinVars, displayVars, writeVars, shiftVars>>

\* ReadSeconds that also clears the counter it reads
ReadSeconds_Clobber ==
    /\ pc = "read_time" /\ sRead = None
    /\ sRead' = seconds
    /\ seconds' = 0
    /\ UNCHANGED <<pc, didReset, calls, raw, mRead>>
    /\ UNCHANGED <<minutes, nticks, ticked, buttonVars, pinVars, displayVars, writeVars, shiftVars>>

\* minutes * 100 + seconds: the read of seconds
ReadSeconds ==
    /\ pc = "read_time" /\ sRead = None
    /\ sRead' = seconds
    /\ UNCHANGED <<pc, didReset, calls, raw, mRead>>
    /\ UNCHANGED <<clockVars, buttonVars, pinVars, displayVars, writeVars, shiftVars>>

\* ShowTime that packs the minutes with a factor of 1000
ShowTime_Factor1000 ==
    /\ pc = "read_time" /\ mRead # None /\ sRead # None
    /\ number' = mRead * 1000 + sRead
    /\ showDecimalPoint' = TRUE
    /\ decimalPosition' = 1
    /\ dpc' = "enter"
    /\ calls' = calls + 1
    /\ pc' = "display"
    /\ UNCHANGED <<didReset, raw, mRead, sRead, digits, i>>
    /\ UNCHANGED <<clockVars, buttonVars, pinVars, writeVars, shiftVars>>

\* timeValue is computed from the two reads and displayNumber(timeValue, true, 1) is entered
ShowTime ==
    /\ pc = "read_time" /\ mRead # None /\ sRead # None
    /\ number' = mRead * 100 + sRead
    /\ showDecimalPoint' = TRUE
    /\ decimalPosition' = 1
    /\ dpc' = "enter"
    /\ calls' = calls + 1
    /\ pc' = "display"
    /\ UNCHANGED <<didReset, raw, mRead, sRead, digits, i>>
    /\ UNCHANGED <<clockVars, buttonVars, pinVars, writeVars, shiftVars>>

\* displayNumber returned: the iteration ends, while(1) goes round
LoopBack ==
    /\ pc = "display" /\ dpc = "ret"
    /\ pc' = "poll_s1"
    /\ raw' = None /\ mRead' = None /\ sRead' = None
    /\ dpc' = "idle" /\ number' = None /\ showDecimalPoint' = FALSE
    /\ decimalPosition' = None /\ digits' = <<>> /\ i' = None
    /\ UNCHANGED <<didReset, calls>>
    /\ UNCHANGED <<clockVars, buttonVars, pinVars, writeVars, shiftVars>>

\* the loop of displayNumber (lines 89-99) seen from the counters: it sleeps,
\* writes neither counter and returns
DisplayRun ==
    /\ pc = "display" /\ dpc = "loop"
    /\ pc' = "showing"
    /\ raw' = None /\ mRead' = None /\ sRead' = None
    /\ dpc' = "idle" /\ number' = None /\ showDecimalPoint' = FALSE
    /\ decimalPosition' = None /\ digits' = <<>> /\ i' = None
    /\ latched' = <<>>
    /\ sleptMs' = SettleMs
    /\ UNCHANGED <<didReset, calls>>
    /\ UNCHANGED <<latchPin, clockPin, dataPin, sr, pulses>>
    /\ UNCHANGED <<clockVars, buttonVars, writeVars, shiftVars>>

\* lines 125-141 seen from the counters: the rest of the iteration reads
\* them, calls displayNumber, which sleeps, and writes neither counter
ShowValue ==
    /\ pc = "poll_s3"
    /\ pc' = "showing"
    /\ calls' = calls + 1
    /\ UNCHANGED <<didReset, raw, mRead, sRead>>
    /\ UNCHANGED <<clockVars, buttonVars, pinVars, displayVars, writeVars, shiftVars>>

\* displayNumber returned, seen from the counters: while(1) goes round
ShowValueDone ==
    /\ pc = "showing"
    /\ pc' = "poll_s1"
    /\ ticked' = FALSE
    /\ sleptMs' = SettleMs
    /\ UNCHANGED <<didReset, calls, raw, mRead, sRead>>
    /\ UNCHANGED <<seconds, minutes, nticks, buttonVars, latchPin, clockPin, dataPin, sr, pulses, latched, displayVars, writeVars, shiftVars>>

\* ---- specifications ---------------------------------------------------------
ShiftStep == ShiftData \/ ShiftClockHigh \/ ShiftClockLow

WriteStep == WriteLatchLow \/ WriteDigit \/ WriteLatchHigh

DisplayStep == DisplayEnter \/ DisplayDigit \/ DisplaySleep \/ DisplayWake \/ DisplayDone

MainStep ==
    \/ PollS1 \/ ResetMinutes \/ ResetSeconds \/ Debounce \/ PollS3
    \/ ShowVoltage \/ ReadMinutes \/ ReadSeconds \/ ShowTime \/ LoopBack

Environment == ToggleS1 \/ ToggleS2 \/ ToggleS3

\* the whole program at pin level, with a bounded number of ticks
Next == MainStep \/ DisplayStep \/ WriteStep \/ ShiftStep \/ TickBounded \/ Environment

Spec == Init /\ [][Next]_vars

\* the same with main always scheduled again: it is the only thread, its
\* sleeps are timed and it waits for nothing else
MainProgress == MainStep \/ DisplayStep \/ WriteStep \/ ShiftStep

SpecLive == Init /\ [][Next]_vars /\ WF_vars(MainProgress)

\* the counters over their whole range: the tick handler, the buttons and the
\* reset statement of main
NextClock ==
    \/ PollS1 \/ ResetMinutes \/ ResetSeconds \/ Debounce \/ ShowValue \/ ShowValueDone
    \/ Tick \/ Environment

SpecClock == Init /\ [][NextClock]_vars

\* the time branch of main over the whole range of the counters, the reset
\* button never pressed
NextRead ==
    \/ PollS1 \/ PollS3 \/ ReadMinutes \/ ReadSeconds \/ ShowTime
    \/ DisplayEnter \/ DisplayRun \/ ShowValueDone \/ Tick

SpecRead == Init /\ [][NextRead]_vars

\* main over the whole range of the counters, with the reset and both branches
NextLoop ==
    \/ NextRead \/ ResetMinutes \/ ResetSeconds \/ Debounce \/ ShowVoltage
    \/ ToggleS1 \/ ToggleS3

SpecLoop == Init /\ [][NextLoop]_vars

\* the tick handler alone, its invocations counted
NextTime == TickOnly

SpecTime == Init /\ [][NextTime]_vars

\* one call of shiftOutMSBFirst(v) for every byte v
InitShift ==
    /\ seconds = 0 /\ minutes = 0 /\ nticks = 0 /\ ticked = FALSE
    /\ s1 = 1 /\ s2 = 1 /\ s3 = 1
    /\ latchPin = 0 /\ clockPin = 0 /\ dataPin \in {0, 1}
    /\ sr = 0 /\ pulses = 0 /\ latched = <<>> /\ sleptMs = None
    /\ pc = "halt" /\ didReset = FALSE /\ calls = 0
    /\ raw = None /\ mRead = None /\ sRead = None
    /\ dpc = "idle" /\ number = None /\ showDecimalPoint = FALSE
    /\ decimalPosition = None /\ digits = <<>> /\ i = None
    /\ wpc = "idle" /\ segments = None /\ digit = None
    /\ spc = "data" /\ value \in 0..255 /\ bit = 7

SpecShift == InitShift /\ [][ShiftStep]_vars

\* one call of displayNumber(n, show, p)
InitDisplay ==
    /\ seconds = 0 /\ minutes = 0 /\ nticks = 0 /\ ticked = FALSE
    /\ s1 = 1 /\ s2 = 1 /\ s3 = 1
    /\ latchPin = 0 /\ clockPin = 0 /\ dataPin = 0
    /\ sr = 0 /\ pulses = 0 /\ latched = <<>> /\ sleptMs = None
    /\ pc = "halt" /\ didReset = FALSE /\ calls = 0
    /\ raw = None /\ mRead = None /\ sRead = None
    /\ dpc = "enter" /\ number \in DisplayNumbers
    /\ showDecimalPoint \in BOOLEAN /\ decimalPosition \in 0..3
    /\ digits = <<>> /\ i = None
    /\ wpc = "idle" /\ segments = None /\ digit = None
    /\ spc = "idle" /\ value = None /\ bit = None

NextDisplay == DisplayStep \/ WriteStep \/ ShiftStep

SpecDisplay == InitDisplay /\ [][NextDisplay]_vars

\* one call of displayNumber(n, show, p) for arguments of any length
InitDisplayWide ==
    /\ seconds = 0 /\ minutes = 0 /\ nticks = 0 /\ ticked = FALSE
    /\ s1 = 1 /\ s2 = 1 /\ s3 = 1
    /\ latchPin = 0 /\ clockPin = 0 /\ dataPin = 0
    /\ sr = 0 /\ pulses = 0 /\ latched = <<>> /\ sleptMs = None
    /\ pc = "halt" /\ didReset = FALSE /\ calls = 0
    /\ raw = None /\ mRead = None /\ sRead = None
    /\ dpc = "enter" /\ number \in WideNumbers
    /\ showDecimalPoint \in BOOLEAN /\ decimalPosition \in 0..3
    /\ digits = <<>> /\ i = None
    /\ wpc = "idle" /\ segments = None /\ digit = None
    /\ spc = "idle" /\ value = None /\ bit = None

SpecDisplayWide == InitDisplayWide /\ [][NextDisplay]_vars

\* the digit decomposition of displayNumber for every n in 0..MaxNumber
InitDigits ==
    /\ seconds = 0 /\ minutes = 0 /\ nticks = 0 /\ ticked = FALSE
    /\ s1 = 1 /\ s2 = 1 /\ s3 = 1
    /\ latchPin = 0 /\ clockPin = 0 /\ dataPin = 0
    /\ sr = 0 /\ pulses = 0 /\ latched = <<>> /\ sleptMs = None
    /\ pc = "halt" /\ didReset = FALSE /\ calls = 0
    /\ raw = None /\ mRead = None /\ sRead = None
    /\ dpc = "enter" /\ number \in 0..MaxNumber
    /\ showDecimalPoint = FALSE /\ decimalPosition = 1
    /\ digits = <<>> /\ i = None
    /\ wpc = "idle" /\ segments = None /\ digit = None
    /\ spc = "idle" /\ value = None /\ bit = None

SpecDigits == InitDigits /\ [][DisplayEnter]_vars

\* the voltage branch of main for every 16-bit sample
NextVolt == PollS1 \/ ToggleS3 \/ PollS3 \/ ShowVoltageAny

SpecVolt == Init /\ [][NextVolt]_vars

\* ---- properties ------------------------------------------------------------------

\* C1: in every state main can observe, 0 <= seconds < 60 and 0 <= minutes < 100,
\* for every interleaving of ticks, button changes and the reset's two stores.
C1_CountersInRange ==
    /\ seconds \in 0..59
    /\ minutes \in 0..99

\* a reset was performed and the counters later stand at 99:59, one tick before the full rollover
C1_Witness == didReset /\ minutes = 99 /\ seconds = 59

\* C2: with no reset, after k invocations of updateTime from (0, 0) the state is
\* minutes = (k div 60) mod 100 and seconds = k mod 60.
C2_CountersAfterTicks ==
    /\ minutes = (nticks \div 60) % 100
    /\ seconds = nticks % 60

\* 6000 invocations have brought the counters back to (0, 0)
C2_Witness == nticks = 6000 /\ minutes = 0 /\ seconds = 0

\* C3: when main has found s1 low, both counters are 0 at the moment it enters
\* the debounce delay, wherever a tick falls relative to the two stores.
C3_ZeroAtDebounce ==
    [][(pc = "reset_sec" /\ pc' = "debounce") => (seconds' = 0 /\ minutes' = 0)]_vars

\* C4: a reset is followed by the debounce delay, and until that delay has
\* elapsed main neither samples s1 nor writes the counters: the only changes
\* of the counters in the window are those of the tick handler, a change of
\* s1 in the window moves neither main nor the counters, and main leaves the
\* window towards the s3 test with the counters untouched.
C4_OneResetPerWindow ==
    [][ /\ (pc = "reset_sec" /\ pc' # pc) => pc' = "debounce"
        /\ pc = "debounce" =>
              /\ pc' \in {"debounce", "poll_s3"}
              /\ pc' = "poll_s3" => UNCHANGED <<seconds, minutes>>
              /\ s1' # s1 => (pc' = pc /\ UNCHANGED <<seconds, minutes>>)
              /\ UNCHANGED <<seconds, minutes>> \/ updateTime
              /\ UNCHANGED didReset
      ]_vars

\* main is inside the debounce delay after a reset and s1 has gone high again
C4_Witness == pc = "debounce" /\ didReset /\ s1 = 1

\* C5: one call of shiftOutMSBFirst(v) makes exactly 8 clock pulses; the data
\* line is written before each rising edge and at the k-th rising edge it holds
\* bit 8-k of v; on return the clock is low, the data line holds bit 0 of v and
\* the register has received v most significant bit first.
C5_ShiftOutMsbFirst ==
    /\ pulses <= 8
    /\ spc = "clk_hi" => (clockPin = 0 /\ pulses = 7 - bit /\ dataPin = (value \div Pow2(bit)) % 2)
    /\ spc = "clk_lo" => (clockPin = 1 /\ pulses = 8 - bit /\ dataPin = (value \div Pow2(bit)) % 2)
    /\ spc = "ret" => (pulses = 8 /\ clockPin = 0 /\ dataPin = value % 2 /\ sr % 256 = value)

\* shiftOutMSBFirst(0b10110000) has returned
C5_Witness == spc = "ret" /\ value = 176 /\ pulses = 8 /\ sr % 256 = 176

\* C6: every display update drives the latch low before its first clock pulse,
\* keeps it low during exactly 16 pulses and raises it once afterwards: the
\* latch is low whenever a byte is being shifted, the clock rises only while
\* the latch is low, and at every rising latch edge 16 pulses have been made
\* and the register holds (segments, digit) of this update.
C6_LatchFramesTransfer ==
    /\ [](/\ (spc \in {"data", "clk_hi", "clk_lo"} \/ wpc \in {"shift_seg", "shift_dig"}) => latchPin = 0
          /\ clockPin = 1 => latchPin = 0
          /\ pulses <= 16
          /\ dpc \in {"loop", "ret"} => Len(latched) = i
          /\ wpc = "ret" => Len(latched) = i + 1)
    /\ [][ /\ (clockPin = 0 /\ clockPin' = 1) => (latchPin = 0 /\ latchPin' = 0)
           /\ (latchPin = 0 /\ latchPin' = 1) =>
                 /\ pulses = 16 /\ bit = -1 /\ clockPin = 0
                 /\ sr' = segments * 256 + digit
                 /\ latched' = Append(latched, segments * 256 + digit)
         ]_vars

\* main's display call has made its fourth update and the latch is high
C6_Witness == pc = "display" /\ wpc = "ret" /\ i = 3 /\ latchPin = 1 /\ pulses = 16

\* C7: at every rising latch edge the latched digit-select byte is one of
\* 0x01, 0x02, 0x04, 0x08, and within one displayNumber call the select bytes
\* are latched in the order 0x01, 0x02, 0x04, 0x08.
C7_OneHotSelect ==
    /\ Len(latched) <= 4
    /\ \A k \in 1..Len(latched) :
          /\ latched[k] % 256 \in {1, 2, 4, 8}
          /\ latched[k] % 256 = Pow2(k - 1)
    /\ dpc = "ret" => Len(latched) = 4

\* a displayNumber call of main has latched all four positions
C7_Witness ==
    /\ pc = "display" /\ dpc = "ret"
    /\ [k \in 1..4 |-> latched[k] % 256] = <<1, 2, 4, 8>>

\* C8: in a call displayNumber(n, show, p) the i-th update latches a segment
\* byte whose low 7 bits are those of digitPattern[d_i], d_0..d_3 being the
\* thousands, hundreds, tens and units digit of n, and whose bit 7 is clear
\* iff show is true and i = p.
C8_SegmentBytes ==
    /\ \A k \in 1..Len(latched) :
          LET seg == latched[k] \div 256
              d == CASE k = 1 -> (number \div 1000) % 10
                     [] k = 2 -> (number \div 100) % 10
                     [] k = 3 -> (number \div 10) % 10
                     [] k = 4 -> number % 10
          IN  /\ seg % 128 = digitPattern(d) % 128
              /\ (seg \div 128 = 0) <=> (showDecimalPoint /\ k - 1 = decimalPosition)
    /\ dpc = "ret" => Len(latched) = 4

\* displayNumber(530, true, 1) has latched the digits 0, 5, 3, 0 with the
\* decimal point on the second update only
C8_Witness ==
    /\ dpc = "ret" /\ number = 530 /\ showDecimalPoint /\ decimalPosition = 1
    /\ latched = <<192 * 256 + 1, 18 * 256 + 2, 176 * 256 + 4, 192 * 256 + 8>>

\* C9: for n in [0, 9999] the four digits displayNumber computes lie in 0..9
\* and d0*1000 + d1*100 + d2*10 + d3 = n.
C9_DigitsRoundTrip ==
    (dpc = "loop" /\ number <= 9999) =>
        /\ Len(digits) = 4
        /\ \A k \in 1..4 : digits[k] \in 0..9
        /\ digits[1] * 1000 + digits[2] * 100 + digits[3] * 10 + digits[4] = number

\* the digits of 9999 have been computed
C9_Witness == dpc = "loop" /\ number = 9999 /\ digits = <<9, 9, 9, 9>>

\* C10: every iteration of main calls displayNumber exactly once, also after a
\* reset; the call is displayNumber(voltageValue, true, 0) when s3 was found
\* low and displayNumber(minutes*100 + seconds, true, 1) otherwise; a change
\* of s2 changes neither the counters nor an output line nor main's position.
C10_OneDisplayPerIteration ==
    /\ [](calls <= 1)
    /\ [][ /\ (pc' = "poll_s1" /\ pc # "poll_s1") => calls' = 1
           /\ (pc = "poll_s3" /\ pc' # pc) => pc' = (IF s3 = 0 THEN "read_pot" ELSE "read_time")
           /\ (dpc = "idle" /\ dpc' # "idle") =>
                 /\ dpc' = "enter" /\ calls' = calls + 1 /\ showDecimalPoint'
                 /\ IF pc = "read_pot"
                    THEN /\ raw' \in 0..65535
                         /\ number' = VoltageValue(raw') /\ decimalPosition' = 0
                    ELSE /\ pc = "read_time"
                         /\ number' = mRead * 100 + sRead /\ decimalPosition' = 1
           /\ mRead' # mRead => (mRead' = None \/ mRead' = minutes)
           /\ sRead' # sRead => (sRead' = None \/ sRead' = seconds)
           /\ s2' # s2 => UNCHANGED <<clockVars, pinVars, mainVars, displayVars, writeVars, shiftVars>>
         ]_vars

\* an iteration that performed a reset has ended with one displayNumber call
C10_Witness == pc = "poll_s1" /\ didReset /\ calls = 1

\* C11: the counters are written only by the tick handler; no step of main or
\* of the display driver changes seconds or minutes.
C11_OnlyTickWrites ==
    [][(seconds' # seconds \/ minutes' # minutes) => nticks' = nticks + 1]_vars

\* C11 as amended: the counters are written only by the tick handler and by
\* the reset statement of main (line 120), which main reaches only after it
\* found s1 low; no other step of main or of the display driver changes them.
C11_OnlyTickAndResetWrite ==
    [][ /\ (seconds' # seconds \/ minutes' # minutes) =>
              \/ nticks' = nticks + 1
              \/ pc = "reset_min" /\ pc' = "reset_sec" /\ minutes' = 0 /\ seconds' = seconds
              \/ pc = "reset_sec" /\ pc' = "debounce" /\ minutes' = minutes /\ seconds' \in {0, minutes}
        /\ (pc' = "reset_min" /\ pc # "reset_min") => (pc = "poll_s1" /\ s1 = 0)
        /\ (pc' = "reset_sec" /\ pc # "reset_sec") => pc = "reset_min"
      ]_vars

\* main has cleared counters that the tick handler had advanced, and has gone
\* on to display them
C11_Witness == nticks > 0 /\ didReset /\ pc = "display" /\ minutes = 0 /\ seconds = 0 /\ number = 0

\* C12: updateTime is invoked once every second: with no reset the counters
\* show the whole seconds that have elapsed, seconds advancing by one per
\* 1000 ms.
C12_OneTickPerSecond ==
    minutes * 60 + seconds = (ElapsedMs \div 1000) % 6000

\* C13: for every raw sample r in 0..65535 read while s3 is low, displayNumber
\* is called with floor(r * 3300 / 65535), a value in [0, 3300], and with the
\* decimal point at index 0; for r = 32768 the value is 1650.
C13_VoltageValue ==
    (dpc = "enter" /\ raw # None) =>
        /\ number = (raw * 3300) \div 65535
        /\ number \in 0..3300
        /\ showDecimalPoint /\ decimalPosition = 0

\* the sample 32768 has been converted and displayNumber(1650, true, 0) entered
C13_Witness ==
    /\ pc = "display" /\ dpc = "enter" /\ raw = 32768
    /\ number = 1650 /\ showDecimalPoint /\ decimalPosition = 0

\* C14: main never terminates and never blocks for ever: under fair scheduling
\* of main every iteration completes and rising latch edges occur infinitely
\* often, whatever the buttons and the tick handler do.
C14_DisplayForEver ==
    /\ []<>(pc = "poll_s1")
    /\ []<>(wpc = "latch_low")
    /\ []<>(wpc = "ret" /\ latchPin = 1)

\* a display update has been latched in an iteration that performed a reset,
\* the reset button still held down
C14_Witness == s1 = 0 /\ didReset /\ pc = "display" /\ wpc = "ret" /\ latchPin = 1

\* C15: the value minutes*100 + seconds passed to displayNumber equals
\* m*100 + s for a state (m, s) the counters held at one instant of that
\* iteration, wherever a tick falls relative to the two reads.
C15_NoTornTime ==
    [][(pc = "read_time" /\ pc' = "display") => number' \in HeldSinceWake]_vars

\* C16: the output lines are changed only by main's call chain into the
\* display driver: a tick changes no output line and no frame of the driver,
\* an output line changes only in a step of main inside displayNumber, the
\* argument of a call does not change while the call runs, and every update
\* latched in a call shows a digit of that argument, whatever the counters
\* have become meanwhile.
C16_PinsOwnedByMain ==
    /\ [](dpc \in {"loop", "write", "sleep", "ret"} =>
             \A k \in 1..Len(latched) :
                LET d == CASE k = 1 -> (number \div 1000) % 10
                           [] k = 2 -> (number \div 100) % 10
                           [] k = 3 -> (number \div 10) % 10
                           [] k = 4 -> number % 10
                IN  (latched[k] \div 256) % 128 = digitPattern(d) % 128)
    /\ [][ /\ nticks' # nticks => UNCHANGED <<pinVars, displayVars, writeVars, shiftVars>>
           /\ (latchPin' # latchPin \/ clockPin' # clockPin \/ dataPin' # dataPin) =>
                 (pc = "display" /\ pc' = "display" /\ UNCHANGED <<seconds, minutes, nticks>>)
           /\ (dpc # "idle" /\ dpc' # "idle") =>
                 UNCHANGED <<number, showDecimalPoint, decimalPosition>>
         ]_vars

\* a call displaying the time has latched its four updates while the counters
\* have moved on from the value passed
C16_Witness ==
    /\ pc = "display" /\ dpc = "ret" /\ raw = None /\ Len(latched) = 4
    /\ number # minutes * 100 + seconds

\* C17: in every call of displayNumber from main the argument lies in
\* [0, 9999], a time value being at most 9959 and a voltage value at most
\* 3300, so every index used on digitPattern lies in 0..9 and the loop index
\* used on digitPos starts in 0..3, for every interleaving of ticks and resets.
C17_ArgumentInRange ==
    /\ dpc \in {"enter", "loop"} =>
          /\ number \in 0..9999
          /\ raw # None => number <= 3300
          /\ raw = None => (number <= 9959 /\ number % 100 <= 59)
    /\ dpc = "loop" =>
          /\ Len(digits) = 4
          /\ \A k \in 1..4 : digits[k] \in 0..9
          /\ i \in 0..3

\* after a reset, main has called displayNumber with the largest time value
C17_Witness ==
    /\ didReset /\ pc = "display" /\ dpc = "loop"
    /\ number = 9959 /\ digits = <<9, 9, 5, 9>>

\* C18: every digit position is held only for the 2 ms settle delay: between
\* two consecutive rising latch edges main sleeps no longer than the settle
\* delay, also in an iteration with a reset and its debounce delay.
C18_HeldForSettleDelay ==
    [][(latchPin = 0 /\ latchPin' = 1 /\ sleptMs # None) => sleptMs <= SettleMs]_vars

\* C18 as amended: between two consecutive rising latch edges main sleeps
\* exactly the 2 ms settle delay, except before the first update of an
\* iteration that performed a reset, where it sleeps the settle delay plus
\* the 200 ms debounce delay: the rightmost position stays selected that long.
C18_HeldForSettleOrDebounce ==
    [][(latchPin = 0 /\ latchPin' = 1 /\ sleptMs # None) =>
          sleptMs = SettleMs + (IF didReset /\ i = 0 THEN DebounceMs ELSE 0)]_vars

\* the first update after a reset is about to be latched, 202 ms of sleep
\* after the previous rising latch edge
C18_Witness ==
    /\ didReset /\ pc = "display" /\ i = 0 /\ wpc = "shift_dig" /\ spc = "ret"
    /\ latchPin = 0 /\ sleptMs = SettleMs + DebounceMs

\* C19: for every n >= 0, also n > 9999, displayNumber(n, show, p) latches the
\* four (segment, select) updates of displayNumber(n mod 10000, show, p) and
\* returns: the digits above the thousands are dropped.
C19_AliasesModulo10000 ==
    /\ dpc # "enter" =>
          \A k \in 1..Len(latched) :
             LET r == number % 10000
                 d == CASE k = 1 -> r \div 1000
                        [] k = 2 -> (r \div 100) % 10
                        [] k = 3 -> (r \div 10) % 10
                        [] k = 4 -> r % 10
                 dp == IF showDecimalPoint /\ k - 1 = decimalPosition THEN 0 ELSE 128
             IN  latched[k] = ((digitPattern(d) % 128) + dp) * 256 + Pow2(k - 1)
    /\ dpc = "ret" => Len(latched) = 4

\* displayNumber(10530, true, 1) has returned after the four updates of 0530
C19_Witness ==
    /\ dpc = "ret" /\ number = 10530 /\ showDecimalPoint /\ decimalPosition = 1
    /\ latched = <<192 * 256 + 1, 18 * 256 + 2, 176 * 256 + 4, 192 * 256 + 8>>

====
